---- MODULE Spec2Model ----
(***************************************************************************)
(* Model of project1/nn: the Layer variants (layer.py) and the Network     *)
(* orchestrator (network.py).  Real numbers are fixed-point integers in    *)
(* units of 1/Scale; vectors are sequences, a matrix is a sequence of rows.*)
(* The fit loop is split at its statements' boundaries (pc); the program   *)
(* is single-threaded, so no other operation runs while a fit is active.   *)
(* `net` is the network under study, `twin` the same network built with    *)
(* no regularization strategy, driven by the same calls.                   *)
(***************************************************************************)
EXTENDS Integers, Sequences, FiniteSets, TLC

VARIABLES net, twin, last_op, call, n_fits, used, processed, n_updates, n_backward, stale

vars == <<net, twin, last_op, call, n_fits, used, processed, n_updates, n_backward, stale>>

\* ---------------------------------------------------------------- bounds
Scale == 8
MaxN == 2
MaxEpochs == 2
MaxVal == 1
MaxBatch == 2
MaxHidden == 1
MaxFits == 2
MaxSamples == 4

\* ------------------------------------------------------- fixed-point math
Mul(a, c) == (a * c) \div Scale

RECURSIVE SumSeq(_)
SumSeq(s) == IF s = <<>> THEN 0 ELSE Head(s) + SumSeq(Tail(s))

Max2(a, c) == IF a >= c THEN a ELSE c

RECURSIVE MaxSeq(_)
MaxSeq(s) == IF Len(s) = 1 THEN s[1] ELSE Max2(Head(s), MaxSeq(Tail(s)))

\* np.dot(X, W): vector (in) times matrix (in x out)
VecMat(X, W) ==
    IF W = <<>> THEN <<>>
    ELSE [j \in 1..Len(W[1]) |-> SumSeq([k \in 1..Len(X) |-> Mul(X[k], W[k][j])])]

\* np.diag of a vector: the diagonal matrix
DiagMatrix(v) == [r \in 1..Len(v) |-> [c \in 1..Len(v) |-> IF r = c THEN v[r] ELSE 0]]

\* np.diag of a square matrix: its diagonal
DiagVector(M) == [r \in 1..Len(M) |-> M[r][r]]

\* np.exp, fixed-point, for arguments <= 0: e^(-1/Scale) is close to (Scale-1)/Scale
RECURSIVE ExpFix(_)
ExpFix(d) == IF d >= 0 THEN Scale ELSE (ExpFix(d + 1) * (Scale - 1)) \div Scale

\* np.argmax: the first position of the maximum
ArgMax_last(v) == CHOOSE p \in 1..Len(v) :
    /\ \A q \in 1..Len(v) : v[q] <= v[p]
    /\ \A q \in (p+1)..Len(v) : v[q] < v[p]

ArgMax(v) == CHOOSE p \in 1..Len(v) :
    /\ \A q \in 1..Len(v) : v[q] <= v[p]
    /\ \A q \in 1..(p-1) : v[q] < v[p]

\* np.zeros(shape); prediction[argmax] = 1
OneHot(n, p) == [k \in 1..n |-> IF k = p THEN Scale ELSE 0]

\* np.sum(list, axis=0) of matrices shaped like `like`; an empty list sums to
\* the scalar 0.0, which broadcasts to zeros
MatSum(list, like) ==
    [r \in 1..Len(like) |-> [c \in 1..Len(like[r]) |->
        SumSeq([k \in 1..Len(list) |-> list[k][r][c]])]]

VecSum(list, like) ==
    [c \in 1..Len(like) |-> SumSeq([k \in 1..Len(list) |-> list[k][c]])]

\* ------------------------------------------------ strategy collaborators
\* nn.activation.Relu
Relu(z) == [k \in 1..Len(z) |-> Max2(0, z[k])]

Relu_gradient(M) ==
    [r \in 1..Len(M) |-> [c \in 1..Len(M[r]) |-> IF M[r][c] > 0 THEN Scale ELSE 0]]

\* nn.loss: a scalar loss and its gradient with respect to y_hat
Loss(y_hat, y) == SumSeq([k \in 1..Len(y_hat) |-> Mul(y_hat[k] - y[k], y_hat[k] - y[k])])

Loss_gradient(y_hat, y) == [k \in 1..Len(y_hat) |-> y_hat[k] - y[k]]

\* nn.regularization: a scalar penalty from a weight matrix
L2(W) == SumSeq([r \in 1..Len(W) |-> SumSeq([c \in 1..Len(W[r]) |-> Mul(W[r][c], W[r][c])])])

\* ----------------------------------------------------------------- layers
InputLayer(input_size) ==
    [kind |-> "Input", size |-> input_size, W |-> <<>>, b |-> <<>>, learning_rate |-> 0,
     W_gradients |-> <<>>, b_gradients |-> <<>>, input |-> <<>>, output |-> <<>>]

HiddenLayer(output_size, learning_rate, W0, b0) ==
    [kind |-> "Hidden", size |-> output_size, W |-> W0, b |-> b0,
     learning_rate |-> learning_rate,
     W_gradients |-> <<>>, b_gradients |-> <<>>, input |-> <<>>, output |-> <<>>]

SoftmaxLayer(input_size) ==
    [kind |-> "Softmax", size |-> input_size, W |-> <<>>, b |-> <<>>, learning_rate |-> 0,
     W_gradients |-> <<>>, b_gradients |-> <<>>, input |-> <<>>, output |-> <<>>]

\* HiddenLayer.update_parameters
HiddenLayer_update_parameters_keep_b(l) ==
    [l EXCEPT !.W = [r \in 1..Len(l.W) |-> [c \in 1..Len(l.W[r]) |->
                        l.W[r][c] - Mul(l.learning_rate, MatSum(l.W_gradients, l.W)[r][c])]],
              !.W_gradients = <<>>,
              !.b = [c \in 1..Len(l.b) |->
                        l.b[c] - Mul(l.learning_rate, VecSum(l.b_gradients, l.b)[c])]]

HiddenLayer_update_parameters(l) ==
    [l EXCEPT !.W = [r \in 1..Len(l.W) |-> [c \in 1..Len(l.W[r]) |->
                        l.W[r][c] - Mul(l.learning_rate, MatSum(l.W_gradients, l.W)[r][c])]],
              !.W_gradients = <<>>,
              !.b = [c \in 1..Len(l.b) |->
                        l.b[c] - Mul(l.learning_rate, VecSum(l.b_gradients, l.b)[c])],
              !.b_gradients = <<>>]

\* HiddenLayer.forward_pass: the layer afterwards (its output is .output)
HiddenLayer_forward_pass(l, X) ==
    LET z == VecMat(X, l.W)
    IN [l EXCEPT !.input = X,
                 !.output = Relu([k \in 1..Len(z) |-> z[k] + l.b[k]])]

\* SoftmaxLayer.forward_pass
SoftmaxLayer_forward_pass(l, X) ==
    LET m == MaxSeq(X)
        e == [k \in 1..Len(X) |-> ExpFix(X[k] - m)]
        total == SumSeq(e)
    IN [l EXCEPT !.input = X,
                 !.output = [k \in 1..Len(X) |-> (e[k] * Scale) \div total]]

\* Layer.forward_pass, by variant; InputLayer.forward_pass returns X
Layer_forward_pass(l, X) ==
    CASE l.kind = "Hidden" -> [layer |-> HiddenLayer_forward_pass(l, X),
                               out |-> HiddenLayer_forward_pass(l, X).output]
      [] l.kind = "Softmax" -> [layer |-> SoftmaxLayer_forward_pass(l, X),
                                out |-> SoftmaxLayer_forward_pass(l, X).output]
      [] OTHER -> [layer |-> l, out |-> X]

\* HiddenLayer.backward_pass: the layer afterwards and the returned J_L_N_prev
HiddenLayer_backward_pass_online(l, J_L_N) ==
    LET J_N_sum == Relu_gradient(DiagMatrix(J_L_N))
        J_N_W_hat == [k \in 1..Len(l.input) |-> [j \in 1..Len(J_N_sum) |->
                        Mul(l.input[k], DiagVector(J_N_sum)[j])]]
        J_L_W == [k \in 1..Len(J_N_W_hat) |-> [j \in 1..Len(J_L_N) |->
                        Mul(J_L_N[j], J_N_W_hat[k][j])]]
    IN [layer |-> [l EXCEPT !.W = [r \in 1..Len(l.W) |-> [c \in 1..Len(l.W[r]) |->
                                      l.W[r][c] - Mul(l.learning_rate, J_L_W[r][c])]],
                            !.W_gradients = Append(@, J_L_W),
                            !.b_gradients = Append(@, DiagVector(J_N_sum))],
        out |-> J_L_N]

HiddenLayer_backward_pass(l, J_L_N) ==
    LET J_N_sum == Relu_gradient(DiagMatrix(J_L_N))
        \* np.dot(J_N_sum, self.W.T): out x in
        J_N_N_prev == [r \in 1..Len(J_N_sum) |-> [k \in 1..Len(l.W) |->
                        SumSeq([j \in 1..Len(J_N_sum[r]) |-> Mul(J_N_sum[r][j], l.W[k][j])])]]
        \* np.outer(self.input, np.diag(J_N_sum)): in x out
        J_N_W_hat == [k \in 1..Len(l.input) |-> [j \in 1..Len(J_N_sum) |->
                        Mul(l.input[k], DiagVector(J_N_sum)[j])]]
        \* J_L_N * J_N_W_hat broadcasts J_L_N over the rows
        J_L_W == [k \in 1..Len(J_N_W_hat) |-> [j \in 1..Len(J_L_N) |->
                        Mul(J_L_N[j], J_N_W_hat[k][j])]]
        J_L_b == DiagVector(J_N_sum)
        J_L_N_prev == [k \in 1..Len(l.W) |->
                        SumSeq([r \in 1..Len(J_L_N) |-> Mul(J_L_N[r], J_N_N_prev[r][k])])]
    IN [layer |-> [l EXCEPT !.W_gradients = Append(@, J_L_W),
                            !.b_gradients = Append(@, J_L_b)],
        out |-> J_L_N_prev]

\* SoftmaxLayer.backward_pass
SoftmaxLayer_backward_pass(l, J_L_S) ==
    LET o == l.output
        J_S_N == [r \in 1..Len(o) |-> [c \in 1..Len(o) |->
                    IF r = c THEN o[r] - Mul(o[r], o[r]) ELSE 0 - Mul(o[r], o[c])]]
    IN [layer |-> l,
        out |-> [c \in 1..Len(o) |-> SumSeq([r \in 1..Len(o) |-> Mul(J_L_S[r], J_S_N[r][c])])]]

\* Layer.backward_pass, by variant; InputLayer.backward_pass returns X
Layer_backward_pass(l, J) ==
    CASE l.kind = "Hidden" -> HiddenLayer_backward_pass(l, J)
      [] l.kind = "Softmax" -> SoftmaxLayer_backward_pass(l, J)
      [] OTHER -> [layer |-> l, out |-> J]

\* ---------------------------------------------------------------- network
\* Network.__init__; the fit frame's locals are part of the record
Network(batch_size, wreg, wrt) ==
    [layers |-> <<>>, batch_size |-> batch_size, wreg |-> wreg, wrt |-> wrt,
     train_loss |-> <<>>, val_loss |-> <<>>, train_accuracy |-> <<>>, val_accuracy |-> <<>>,
     pc |-> "idle", error |-> "none",
     X_train |-> <<>>, y_train |-> <<>>,
     X_val_given |-> FALSE, y_val_given |-> FALSE, X_val |-> <<>>, y_val |-> <<>>,
     epochs |-> 0, is_validating |-> FALSE,
     epoch |-> 0, it |-> 0, i |-> 0, i_bound |-> FALSE,
     aggregated_train_loss |-> 0, num_train_correct |-> 0,
     aggregated_val_loss |-> 0, num_val_correct |-> 0, val_correct |-> <<>>,
     X |-> <<>>, y |-> <<>>, y_hat |-> <<>>, prediction |-> <<>>]

\* Network._forward_pass: the layers afterwards and the output
RECURSIVE ForwardFrom(_, _, _)
ForwardFrom(layers, k, X) ==
    IF k > Len(layers) THEN [layers |-> layers, out |-> X]
    ELSE LET r == Layer_forward_pass(layers[k], X)
         IN ForwardFrom([layers EXCEPT ![k] = r.layer], k + 1, r.out)

Network_forward_pass(layers, X) == ForwardFrom(layers, 1, X)

\* Network._backward_pass: the layers in reverse order
RECURSIVE BackwardFrom(_, _, _)
BackwardFrom(layers, k, J) ==
    IF k < 1 THEN [layers |-> layers, out |-> J]
    ELSE LET r == Layer_backward_pass(layers[k], J)
         IN BackwardFrom([layers EXCEPT ![k] = r.layer], k - 1, r.out)

Network_backward_pass(layers, J_L_S) == BackwardFrom(layers, Len(layers), J_L_S).layers

\* Network._update_parameters
Network_update_parameters(layers) ==
    [k \in 1..Len(layers) |->
        IF layers[k].kind = "Hidden" THEN HiddenLayer_update_parameters(layers[k])
        ELSE layers[k]]

\* Network.add_layer
Network_add_layer(m, layer) == [m EXCEPT !.layers = Append(@, layer)]

\* self.wreg * self.wrt(layer.W) over the Hidden layers, when wrt is not None
RegularizationTerm_uncoefficiented(m) ==
    IF m.wrt = "None" THEN 0
    ELSE SumSeq([k \in 1..Len(m.layers) |->
            IF m.layers[k].kind = "Hidden" THEN L2(m.layers[k].W) ELSE 0])

RegularizationTerm(m) ==
    IF m.wrt = "None" THEN 0
    ELSE SumSeq([k \in 1..Len(m.layers) |->
            IF m.layers[k].kind = "Hidden" THEN Mul(m.wreg, L2(m.layers[k].W)) ELSE 0])

\* fit, lines 106-110
ResetHistory_cumulative(m) == m

ResetHistory(m) ==
    [m EXCEPT !.train_loss = <<>>, !.train_accuracy = <<>>,
              !.val_loss = <<>>, !.val_accuracy = <<>>]

\* fit, entry: a fresh frame, is_validating, the histories reset
Fit_begin_flushing(m, X_train, y_train, X_val_given, X_val, y_val_given, y_val, epochs) ==
    [ResetHistory(m) EXCEPT
        !.X_train = X_train, !.y_train = y_train,
        !.X_val_given = X_val_given, !.y_val_given = y_val_given,
        !.X_val = X_val, !.y_val = y_val, !.epochs = epochs,
        !.is_validating = X_val_given /\ y_val_given,
        !.layers = [k \in 1..Len(m.layers) |->
                      [m.layers[k] EXCEPT !.W_gradients = <<>>, !.b_gradients = <<>>]],
        !.epoch = 0, !.it = 0, !.i = 0, !.i_bound = FALSE,
        !.aggregated_train_loss = 0, !.num_train_correct = 0,
        !.aggregated_val_loss = 0, !.num_val_correct = 0, !.val_correct = <<>>,
        !.X = <<>>, !.y = <<>>, !.y_hat = <<>>, !.prediction = <<>>,
        !.error = "none", !.pc = "epoch_loop"]

Fit_begin(m, X_train, y_train, X_val_given, X_val, y_val_given, y_val, epochs) ==
    [ResetHistory(m) EXCEPT
        !.X_train = X_train, !.y_train = y_train,
        !.X_val_given = X_val_given, !.y_val_given = y_val_given,
        !.X_val = X_val, !.y_val = y_val, !.epochs = epochs,
        !.is_validating = X_val_given /\ y_val_given,
        !.epoch = 0, !.it = 0, !.i = 0, !.i_bound = FALSE,
        !.aggregated_train_loss = 0, !.num_train_correct = 0,
        !.aggregated_val_loss = 0, !.num_val_correct = 0, !.val_correct = <<>>,
        !.X = <<>>, !.y = <<>>, !.y_hat = <<>>, !.prediction = <<>>,
        !.error = "none", !.pc = "epoch_loop"]

\* fit, lines 113-117: an epoch of range(epochs) begins
Epoch_begin(m) ==
    [m EXCEPT !.aggregated_train_loss = 0, !.num_train_correct = 0,
              !.it = 0, !.pc = "train_loop"]

\* fit, lines 117-130: the next training sample, forward
Train_forward(m) ==
    LET X == m.X_train[m.it + 1]
        y == m.y_train[m.it + 1]
        f == Network_forward_pass(m.layers, X)
        y_hat == f.out
        prediction == OneHot(Len(y_hat), ArgMax(y_hat))
    IN [m EXCEPT !.i = m.it, !.i_bound = TRUE, !.X = X, !.y = y,
                 !.layers = f.layers, !.y_hat = y_hat,
                 !.aggregated_train_loss = @ + Loss(y_hat, y) + RegularizationTerm(m),
                 !.prediction = prediction,
                 !.num_train_correct = IF prediction = y THEN @ + 1 ELSE @,
                 !.pc = "backward"]

\* fit, lines 134-135
Train_backward(m) ==
    [m EXCEPT !.layers = Network_backward_pass(m.layers, Loss_gradient(m.y_hat, m.y)),
              !.pc = "check"]

\* fit, line 138
BatchBoundary_per_epoch(m) == (m.i + 1) % m.batch_size = 0

BatchBoundary(m) == (m.epoch * Len(m.X_train) + m.i + 1) % m.batch_size = 0

\* fit, lines 138-139, and the loop's advance
Batch_update_check(m) ==
    [m EXCEPT !.layers = IF BatchBoundary(m) THEN Network_update_parameters(@) ELSE @,
              !.it = @ + 1, !.pc = "train_loop"]

\* fit's frame ends: its arguments and locals are gone
ClearFrame(m) ==
    [m EXCEPT !.X_train = <<>>, !.y_train = <<>>,
              !.X_val_given = FALSE, !.y_val_given = FALSE, !.X_val = <<>>, !.y_val = <<>>,
              !.epochs = 0, !.is_validating = FALSE,
              !.epoch = 0, !.it = 0, !.i = 0, !.i_bound = FALSE,
              !.aggregated_train_loss = 0, !.num_train_correct = 0,
              !.aggregated_val_loss = 0, !.num_val_correct = 0, !.val_correct = <<>>,
              !.X = <<>>, !.y = <<>>, !.y_hat = <<>>, !.prediction = <<>>]

\* an exception propagates out of fit
Raise(m, kind) == [ClearFrame(m) EXCEPT !.pc = "raised", !.error = kind]

\* what evaluating `x / (i + 1)` raises
MeanRaises_preset_i(m) == "none"

MeanRaises(m) ==
    IF ~m.i_bound THEN "UnboundLocalError"
    ELSE IF m.i + 1 = 0 THEN "ZeroDivisionError"
    ELSE "none"

\* fit, lines 142-151, and line 176 when not validating
Train_record(m) ==
    IF MeanRaises(m) # "none" THEN Raise(m, MeanRaises(m))
    ELSE [m EXCEPT
            !.train_loss = Append(@, <<m.epoch, m.aggregated_train_loss \div (m.i + 1)>>),
            !.train_accuracy =
                Append(@, <<m.epoch, (m.num_train_correct * Scale) \div (m.i + 1)>>),
            !.epoch = IF m.is_validating THEN @ ELSE @ + 1,
            !.pc = IF m.is_validating THEN "val_begin" ELSE "epoch_loop"]

\* fit, lines 152-155
Val_begin(m) ==
    IF Len(m.y_val) = 0 THEN Raise(m, "IndexError")
    ELSE [m EXCEPT !.val_correct = [x \in 1..Len(m.y_val[1]) |-> 0],
                   !.aggregated_val_loss = 0, !.num_val_correct = 0,
                   !.it = 0, !.pc = "val_loop"]

\* fit, lines 155-168: the next validation sample
Val_forward_training(m) ==
    LET f == Train_backward(Train_forward([m EXCEPT !.X_train = m.X_val,
                                                    !.y_train = m.y_val]))
    IN [m EXCEPT !.i = m.it, !.it = @ + 1, !.layers = f.layers]

Val_forward(m) ==
    LET X == m.X_val[m.it + 1]
        y == m.y_val[m.it + 1]
        f == Network_forward_pass(m.layers, X)
        y_hat == f.out
        prediction == OneHot(Len(y_hat), ArgMax(y_hat))
    IN [m EXCEPT !.i = m.it, !.i_bound = TRUE, !.X = X, !.y = y,
                 !.layers = f.layers, !.y_hat = y_hat,
                 !.aggregated_val_loss = @ + Loss(y_hat, y) + RegularizationTerm(m),
                 !.prediction = prediction,
                 !.num_val_correct = IF prediction = y THEN @ + 1 ELSE @,
                 !.val_correct = IF prediction = y
                                 THEN [@ EXCEPT ![ArgMax(y_hat)] = @ + 1] ELSE @,
                 !.it = @ + 1]

\* fit, lines 171-176
Val_record(m) ==
    IF MeanRaises(m) # "none" THEN Raise(m, MeanRaises(m))
    ELSE [m EXCEPT
            !.val_loss = Append(@, <<m.epoch, m.aggregated_val_loss \div (m.i + 1)>>),
            !.val_accuracy =
                Append(@, <<m.epoch, (m.num_val_correct * Scale) \div (m.i + 1)>>),
            !.epoch = @ + 1, !.pc = "epoch_loop"]

\* fit, lines 197-201: np.array keeps the entries and their order
Fit_return(m) == [ClearFrame(m) EXCEPT !.pc = "returned"]

\* Network.predict
Network_predict(m, X) ==
    LET f == Network_forward_pass(m.layers, X)
        y_hat == f.out
    IN [m EXCEPT !.layers = f.layers, !.X = X,
                 !.prediction = OneHot(Len(y_hat), ArgMax(y_hat))]

\* a caller's layer.update_parameters() on layer h
Layer_update_call(m, h) ==
    [m EXCEPT !.layers[h] = HiddenLayer_update_parameters(@)]

\* ------------------------------------------------------------ environment
\* the dataset collaborator: equal-length X and one-hot y (the XOR toy set)
PoolX == << <<0, 0>>, <<Scale, 0>>, <<Scale, Scale>>, <<0, Scale>> >>
PoolY == << <<Scale, 0>>, <<0, Scale>>, <<Scale, 0>>, <<0, Scale>> >>

Offsets == {0}

DataX(off, n) == [k \in 1..n |-> PoolX[((off + k - 1) % Len(PoolX)) + 1]]
DataY(off, n) == [k \in 1..n |-> PoolY[((off + k - 1) % Len(PoolY)) + 1]]

\* np.random.uniform(weight_range), np.random.uniform(bias_range): some draws
InitWs == { [W |-> << <<4, -4>>, <<-2, 6>> >>, b |-> <<1, 3>>],
            [W |-> << <<0, 0>>, <<0, 0>> >>, b |-> <<0, 0>>] }

LearningRate == Scale

RegConfigs == { [wrt |-> "L2", wreg |-> 0],
                [wrt |-> "L2", wreg |-> Scale] }

Hiddens(layers) == {k \in 1..Len(layers) : layers[k].kind = "Hidden"}

\* the construction collaborator adds Input, then Hidden layers, then Softmax
NextLayers(layers) ==
    IF layers = <<>> THEN {InputLayer(2)}
    ELSE IF layers[Len(layers)].kind = "Softmax" THEN {}
    ELSE {SoftmaxLayer(2)} \cup
         (IF Cardinality(Hiddens(layers)) < MaxHidden
          THEN {HiddenLayer(2, LearningRate, w.W, w.b) : w \in InitWs} ELSE {})

Complete(m) == m.layers # <<>> /\ m.layers[Len(m.layers)].kind = "Softmax"

Idle(m) == m.pc \in {"idle", "returned", "raised"}

\* ------------------------------------------------------------------ state
\* the operation that made the last step (h: the layer a caller addressed)
Did(name, h) == [op |-> name, h |-> h]

Init ==
    /\ \E B \in 1..MaxBatch : \E rc \in RegConfigs :
          /\ net = Network(B, rc.wreg, rc.wrt)
          /\ twin = Network(B, rc.wreg, "None")
    /\ last_op = Did("init", 0)
    /\ call = [n |-> 0, epochs |-> 0, validating |-> FALSE, nv |-> 0]
    /\ n_fits = 0
    /\ used = 0
    /\ processed = 0
    /\ n_updates = <<>>
    /\ n_backward = <<>>
    /\ stale = <<>>

Both(Op(_)) == net' = Op(net) /\ twin' = Op(twin)

AddLayer ==
    /\ Idle(net)
    /\ \E layer \in NextLayers(net.layers) :
          /\ net' = Network_add_layer(net, layer)
          /\ twin' = Network_add_layer(twin, layer)
    /\ last_op' = Did("add_layer", 0)
    /\ n_updates' = Append(n_updates, 0)
    /\ n_backward' = Append(n_backward, 0)
    /\ stale' = Append(stale, 0)
    /\ UNCHANGED <<call, n_fits, used, processed>>

FitStart ==
    /\ Idle(net) /\ Complete(net)
    /\ n_fits < MaxFits
    /\ \E n \in 0..MaxN, off \in Offsets, epochs \in 0..MaxEpochs,
          val \in {"none", "X_only", "both"}, nv \in 0..MaxVal :
          /\ val # "both" => nv = 0
          /\ net' = Fit_begin(net, DataX(off, n), DataY(off, n),
                              val # "none", DataX(off + 1, nv),
                              val = "both", DataY(off + 1, nv), epochs)
          /\ twin' = Fit_begin(twin, DataX(off, n), DataY(off, n),
                               val # "none", DataX(off + 1, nv),
                               val = "both", DataY(off + 1, nv), epochs)
          /\ call' = [n |-> n, epochs |-> epochs, validating |-> val = "both", nv |-> nv]
    /\ last_op' = Did("fit", 0)
    /\ n_fits' = n_fits + 1
    /\ UNCHANGED used
    /\ processed' = 0
    /\ n_updates' = [k \in 1..Len(net.layers) |-> 0]
    /\ stale' = [k \in 1..Len(net.layers) |-> Len(net.layers[k].W_gradients)]
    /\ UNCHANGED n_backward

EpochBegin ==
    /\ net.pc = "epoch_loop" /\ net.epoch < net.epochs
    /\ Both(Epoch_begin)
    /\ last_op' = Did("epoch", 0)
    /\ UNCHANGED <<call, n_fits, used, processed, n_updates, n_backward, stale>>

TrainForward ==
    /\ net.pc = "train_loop" /\ net.it < Len(net.X_train)
    /\ Both(Train_forward)
    /\ last_op' = Did("train_forward", 0)
    /\ processed' = processed + 1
    /\ used' = used + 1
    /\ UNCHANGED <<call, n_fits, n_updates, n_backward, stale>>

TrainBackward ==
    /\ net.pc = "backward"
    /\ Both(Train_backward)
    /\ last_op' = Did("train_backward", 0)
    /\ n_backward' = [k \in 1..Len(net.layers) |->
                        IF net.layers[k].kind = "Hidden" THEN n_backward[k] + 1
                        ELSE n_backward[k]]
    /\ UNCHANGED <<call, n_fits, used, processed, n_updates, stale>>

BatchUpdateCheck ==
    /\ net.pc = "check"
    /\ Both(Batch_update_check)
    /\ last_op' = IF BatchBoundary(net) THEN Did("update", 0) ELSE Did("no_update", 0)
    /\ n_updates' = [k \in 1..Len(net.layers) |->
                        IF BatchBoundary(net) /\ net.layers[k].kind = "Hidden"
                        THEN n_updates[k] + 1 ELSE n_updates[k]]
    /\ n_backward' = [k \in 1..Len(net.layers) |->
                        IF BatchBoundary(net) /\ net.layers[k].kind = "Hidden"
                        THEN 0 ELSE n_backward[k]]
    /\ UNCHANGED <<call, n_fits, used, processed, stale>>

TrainRecord ==
    /\ net.pc = "train_loop" /\ net.it = Len(net.X_train)
    /\ Both(Train_record)
    /\ last_op' = Did("train_record", 0)
    /\ UNCHANGED <<call, n_fits, used, processed, n_updates, n_backward, stale>>

ValBegin ==
    /\ net.pc = "val_begin"
    /\ Both(Val_begin)
    /\ last_op' = Did("val_begin", 0)
    /\ UNCHANGED <<call, n_fits, used, processed, n_updates, n_backward, stale>>

ValForward ==
    /\ net.pc = "val_loop" /\ net.it < Len(net.X_val)
    /\ Both(Val_forward)
    /\ last_op' = Did("val_forward", 0)
    /\ UNCHANGED <<call, n_fits, used, processed, n_updates, n_backward, stale>>

ValRecord ==
    /\ net.pc = "val_loop" /\ net.it = Len(net.X_val)
    /\ Both(Val_record)
    /\ last_op' = Did("val_record", 0)
    /\ UNCHANGED <<call, n_fits, used, processed, n_updates, n_backward, stale>>

FitReturn ==
    /\ net.pc = "epoch_loop" /\ net.epoch = net.epochs
    /\ Both(Fit_return)
    /\ last_op' = Did("fit_return", 0)
    /\ UNCHANGED <<call, n_fits, used, processed, n_updates, n_backward, stale>>

Predict ==
    /\ Idle(net) /\ Complete(net)
    /\ \E X \in {PoolX[k] : k \in 1..2} :
          /\ net' = Network_predict(net, X)
          /\ twin' = Network_predict(twin, X)
    /\ last_op' = Did("predict", 0)
    /\ UNCHANGED <<call, n_fits, used, processed, n_updates, n_backward, stale>>

UpdateParametersCall ==
    /\ Idle(net)
    /\ \E h \in Hiddens(net.layers) :
          /\ net' = Layer_update_call(net, h)
          /\ twin' = Layer_update_call(twin, h)
          /\ n_backward' = [n_backward EXCEPT ![h] = 0]
          /\ last_op' = Did("update_call", h)
    /\ UNCHANGED <<call, n_fits, used, processed, n_updates, stale>>

\* the run of several fits on one network, within a budget of training samples
NextRefit ==
    \/ AddLayer
    \/ FitStart /\ used + call'.epochs * call'.n <= MaxSamples
    \/ EpochBegin
    \/ TrainForward
    \/ TrainBackward
    \/ BatchUpdateCheck
    \/ TrainRecord
    \/ ValBegin
    \/ ValForward
    \/ ValRecord
    \/ FitReturn

SpecRefit == Init /\ [][NextRefit]_vars

\* one fit in the life of a network, among its callers' other calls
NextLife ==
    \/ AddLayer
    \/ n_fits = 0 /\ FitStart
    \/ EpochBegin
    \/ TrainForward
    \/ TrainBackward
    \/ BatchUpdateCheck
    \/ TrainRecord
    \/ ValBegin
    \/ ValForward
    \/ ValRecord
    \/ FitReturn
    \/ Predict
    \/ UpdateParametersCall

SpecLife == Init /\ [][NextLife]_vars

\* ----------------------------------------------------------------- claims
HiddenOf(m) == Hiddens(m.layers)

FitEnded == net.pc \in {"returned", "raised"}

\* C1: within one fit, update_parameters has been called on every Hidden layer
\* once per completed batch of the run-wide sample count: before the check that
\* follows sample k, floor((k-1)/B) times; after it, floor(k/B) times; and at
\* return floor(E*N/B) times, with k having run from 1 to E*N.
C1_BatchTrigger ==
    \A h \in HiddenOf(net) :
        /\ net.pc \in {"backward", "check"} =>
              n_updates[h] = (processed - 1) \div net.batch_size
        /\ net.pc \in {"epoch_loop", "train_loop", "val_begin", "val_loop"} =>
              n_updates[h] = processed \div net.batch_size
        /\ net.pc = "returned" =>
              /\ processed = call.epochs * call.n
              /\ n_updates[h] = (call.epochs * call.n) \div net.batch_size

\* a batch of 2 over two epochs of 1 sample: the one update straddles the epochs
C1_Witness ==
    /\ net.pc = "returned" /\ net.batch_size = 2
    /\ call.n = 1 /\ call.epochs = 2
    /\ \E h \in HiddenOf(net) : n_updates[h] = 1

\* C2 (as stated): after the batch-update check that follows a training sample,
\* every Hidden layer's gradient buffer is shorter than batch_size, over any
\* sequence of fit calls.
C2_BufferBelowBatch ==
    (net.pc = "train_loop" /\ last_op.op \in {"update", "no_update"}) =>
        \A h \in HiddenOf(net) :
            /\ Len(net.layers[h].W_gradients) < net.batch_size
            /\ Len(net.layers[h].b_gradients) < net.batch_size

EpochOrdered(history, epochs) ==
    /\ Len(history) = epochs
    /\ \A k \in 1..Len(history) : history[k][1] = k - 1

\* C3 (as stated): after any fit of E epochs, with or without a validation set,
\* each of the four histories holds one entry per epoch, ordered by epoch.
C3_FourHistories ==
    net.pc = "returned" =>
        /\ EpochOrdered(net.train_loss, call.epochs)
        /\ EpochOrdered(net.train_accuracy, call.epochs)
        /\ EpochOrdered(net.val_loss, call.epochs)
        /\ EpochOrdered(net.val_accuracy, call.epochs)

\* C3 (amended): after any fit of E epochs the two train histories hold one
\* entry per epoch of that call, ordered 0..E-1; the two validation histories
\* do so when both X_val and y_val were supplied, and are empty otherwise.
C3_HistoryPerEpoch ==
    net.pc = "returned" =>
        /\ EpochOrdered(net.train_loss, call.epochs)
        /\ EpochOrdered(net.train_accuracy, call.epochs)
        /\ EpochOrdered(net.val_loss, IF call.validating THEN call.epochs ELSE 0)
        /\ EpochOrdered(net.val_accuracy, IF call.validating THEN call.epochs ELSE 0)

\* a second fit, of two epochs with validation, has returned
C3_Witness ==
    /\ net.pc = "returned" /\ n_fits = 2
    /\ call.epochs = 2 /\ call.validating
    /\ Len(net.val_loss) = 2 /\ Len(net.train_loss) = 2

\* update_parameters has just run on layer h
Updated(h) ==
    \/ last_op.op = "update"
    \/ last_op.op = "update_call" /\ last_op.h = h

\* C4: each Hidden layer's two gradient buffers have the same length, the
\* number of backward_pass calls on it since its last update_parameters (or
\* construction); update_parameters leaves both empty, and called on empty
\* buffers it leaves W and b as they were.
C4_Buffers ==
    /\ [](\A h \in HiddenOf(net) :
            /\ Len(net.layers[h].W_gradients) = n_backward[h]
            /\ Len(net.layers[h].b_gradients) = n_backward[h])
    /\ [][\A h \in HiddenOf(net) : Updated(h)' =>
            /\ net'.layers[h].W_gradients = <<>>
            /\ net'.layers[h].b_gradients = <<>>
            /\ (net.layers[h].W_gradients = <<>> /\ net.layers[h].b_gradients = <<>>) =>
                  /\ net'.layers[h].W = net.layers[h].W
                  /\ net'.layers[h].b = net.layers[h].b]_vars

\* update_parameters called on a layer that never saw a backward pass
C4_Witness ==
    /\ last_op.op = "update_call" /\ net.pc = "idle"
    /\ net.layers[last_op.h].W_gradients = <<>>

IsPrefix(s, t) == Len(s) <= Len(t) /\ SubSeq(t, 1, Len(s)) = s

\* C5: W and b of a Hidden layer change only in update_parameters: the forward
\* and backward passes, predict and add_layer leave them as they were, and a
\* backward pass appends one entry to each gradient buffer.
C5_WeightsFrame ==
    [][\A h \in HiddenOf(net) :
        /\ (net'.layers[h].W # net.layers[h].W \/ net'.layers[h].b # net.layers[h].b) =>
              last_op'.op \in {"update", "update_call"}
        /\ last_op'.op \in {"train_forward", "val_forward", "predict", "add_layer"} =>
              /\ net'.layers[h].W_gradients = net.layers[h].W_gradients
              /\ net'.layers[h].b_gradients = net.layers[h].b_gradients
        /\ last_op'.op = "train_backward" =>
              /\ Len(net'.layers[h].W_gradients) = Len(net.layers[h].W_gradients) + 1
              /\ Len(net'.layers[h].b_gradients) = Len(net.layers[h].b_gradients) + 1
              /\ IsPrefix(net.layers[h].W_gradients, net'.layers[h].W_gradients)
              /\ IsPrefix(net.layers[h].b_gradients, net'.layers[h].b_gradients)]_vars

NonZero(M) == \E r \in 1..Len(M) : \E c \in 1..Len(M[r]) : M[r][c] # 0

\* a backward pass has stored a non-zero weight gradient
C5_Witness ==
    /\ last_op.op = "train_backward"
    /\ \E h \in HiddenOf(net) :
          /\ Len(net.layers[h].W_gradients) >= 1
          /\ NonZero(net.layers[h].W_gradients[Len(net.layers[h].W_gradients)])

\* C6: the validation pass is forward-only: its steps leave W, b and both
\* gradient buffers of every Hidden layer as they were, call no
\* update_parameters, and do not advance the count of samples that batches
\* are cut from.
C6_ValidationForwardOnly ==
    [][last_op'.op \in {"val_begin", "val_forward", "val_record"} =>
        /\ \A h \in HiddenOf(net) :
              /\ net'.layers[h].W = net.layers[h].W
              /\ net'.layers[h].b = net.layers[h].b
              /\ net'.layers[h].W_gradients = net.layers[h].W_gradients
              /\ net'.layers[h].b_gradients = net.layers[h].b_gradients
        /\ processed' = processed
        /\ n_updates' = n_updates
        /\ n_backward' = n_backward]_vars

\* a validation sample went forward while gradients were waiting in a buffer
C6_Witness ==
    /\ last_op.op = "val_forward"
    /\ \E h \in HiddenOf(net) : Len(net.layers[h].W_gradients) >= 1

\* C7: with a regularization strategy and coefficient 0 the recorded train and
\* validation losses are those of the same network with no strategy.
C7_ZeroCoefficient ==
    (net.wrt # "None" /\ net.wreg = 0 /\ twin.wrt = "None") =>
        /\ net.train_loss = twin.train_loss
        /\ net.val_loss = twin.val_loss

\* a fit with validation has recorded non-zero losses over non-zero weights
C7_Witness ==
    /\ net.wrt = "L2" /\ net.wreg = 0 /\ twin.wrt = "None"
    /\ net.pc = "returned"
    /\ Len(net.train_loss) = 2 /\ Len(net.val_loss) = 2
    /\ net.train_loss[2][2] > 0 /\ net.val_loss[2][2] > 0
    /\ \E h \in HiddenOf(net) : L2(net.layers[h].W) > 0

\* a fit of at least one epoch on an empty partition has ended
EmptyPartitionFit ==
    /\ FitEnded
    /\ call.epochs >= 1
    /\ call.n = 0 \/ (call.validating /\ call.nv = 0)

\* C8 (as stated): such a fit ends in a division-by-zero error, with no history
\* entry for the empty partition.
C8_DivisionByZero ==
    EmptyPartitionFit =>
        /\ net.pc = "raised"
        /\ net.error = "ZeroDivisionError"

\* C8 (amended): such a fit ends in an error that is not recovered: an
\* UnboundLocalError for the empty training set (the loop variable i of the
\* mean's divisor was never bound), an IndexError for the empty validation set
\* (y_val[0], before any mean is computed); no history entry is recorded for
\* the empty partition.
C8_EmptyPartitionRaises ==
    EmptyPartitionFit =>
        /\ net.pc = "raised"
        /\ net.error = IF call.n = 0 THEN "UnboundLocalError" ELSE "IndexError"
        /\ call.n = 0 => (net.train_loss = <<>> /\ net.train_accuracy = <<>>)
        /\ (call.validating /\ call.nv = 0) =>
              (net.val_loss = <<>> /\ net.val_accuracy = <<>>)

\* the empty validation set stopped a fit whose first epoch had trained
C8_Witness ==
    /\ net.pc = "raised" /\ net.error = "IndexError"
    /\ call.n > 0 /\ call.validating /\ call.nv = 0
    /\ Len(net.train_loss) = 1

\* the forward pass's output is the last layer's stored output
OutputOf(m) == m.layers[Len(m.layers)].output

\* C9: predict returns a vector of the output layer's width with exactly one
\* entry 1 and the rest 0, the 1 at the first maximum of the forward output,
\* also before any fit; it changes no W, b or gradient buffer.
C9_PredictOneHot ==
    /\ [](last_op.op = "predict" =>
            /\ Len(net.prediction) = net.layers[Len(net.layers)].size
            /\ \E p \in 1..Len(net.prediction) :
                  /\ net.prediction[p] = Scale
                  /\ \A q \in 1..Len(net.prediction) : q # p => net.prediction[q] = 0
                  /\ \A q \in 1..Len(net.prediction) : OutputOf(net)[q] <= OutputOf(net)[p]
                  /\ \A q \in 1..(p - 1) : OutputOf(net)[q] < OutputOf(net)[p])
    /\ [][last_op'.op = "predict" =>
            \A h \in HiddenOf(net) :
                /\ net'.layers[h].W = net.layers[h].W
                /\ net'.layers[h].b = net.layers[h].b
                /\ net'.layers[h].W_gradients = net.layers[h].W_gradients
                /\ net'.layers[h].b_gradients = net.layers[h].b_gradients]_vars

\* predict before any fit, on an output with two equal maxima
C9_Witness ==
    /\ last_op.op = "predict" /\ net.pc = "idle"
    /\ HiddenOf(net) # {}
    /\ OutputOf(net)[1] = OutputOf(net)[2]
    /\ net.prediction = <<Scale, 0>>

====
